---- MODULE Spec2Model ----
(***************************************************************************)
(* The unleakable container of src/src/lib.rs: Lock (storage slot),        *)
(* Acceptor (one-shot permission token) and Handle (access proxy).         *)
(*                                                                         *)
(* A slot is a Lock bound to a stack location.  Values are modelled by     *)
(* their identity: every T moved into fill() or written through            *)
(* deref_mut() is a fresh object, and `dropped` counts how often each      *)
(* object's destructor has run.  The borrow `&'lock mut self` taken by     *)
(* Lock::lock lasts as long as the Lock itself, which is what `borrowed`   *)
(* records; Acceptor and Handle are move-only, so the model counts the     *)
(* live ones per slot.                                                     *)
(***************************************************************************)
EXTENDS Integers, FiniteSets

\* ------------------------------------------------------------- bounds
NSlots == 3
NVals == 2
MaxAlias == 1

Slots == 1..NSlots
Vals == 1..NVals

\* Option::None of opt_val, and the outcome of a failed expect().
None == 0
Panic == -1

VARIABLES
    status,      \* [Slots -> {"unborn", "scope", "gone", "forgotten"}]
    opt_val,     \* [Slots -> Vals \cup {None}]: Lock.opt_val
    borrowed,    \* [Slots -> BOOLEAN]: the &'lock mut loan of the Lock is live
    acceptors,   \* [Slots -> Nat]: live Acceptors whose mut_lock is the slot
    handles,     \* [Slots -> Nat]: live Handles whose mut_lock is the slot
    made,        \* values constructed so far
    dropped,     \* [Vals -> Nat]: destructor runs per value
    panicked,    \* a panic is unwinding the stack
    last,        \* the last operation: [op, slot, src, val, ran]
    pre_opt,     \* opt_val before the last operation
    issued,      \* [Slots -> Nat]: Acceptors ever issued for the slot
    heldAtExit,  \* [Slots -> Vals \cup {None}]: opt_val when the slot left scope
    drained,     \* [Slots -> Vals \cup {None}]: value relocated out of the slot
    copies,      \* Handles duplicated so far
    stored,      \* [Slots -> Vals \cup {None}]: the last value stored into the slot
    storedBy,    \* [Slots -> op]: the operation that stored it
    released,    \* [Slots -> BOOLEAN]: the slot's last Handle was dropped
    bare,        \* values the caller holds outside every slot
    leaked,      \* values the caller has forgotten (std::mem::forget)
    foo,         \* examples/take_mut.rs, main: the location `foo`
                 \*   [val: the Foo whose bits it holds, full: it owns them,
                 \*    scope: the binding is live]
    main_t,      \* main's `t`: "none" before take, "held", "gone"
    hidden_hole, \* the HiddenHole that take() built (a value of the slots)
    filled,      \* HiddenHole.filled
    unfilled,    \* the panic "Unfilled hole!" was raised
    fooDrops     \* [Foos -> Nat]: runs of Foo's destructor per Foo

vars == <<status, opt_val, borrowed, acceptors, handles, made, dropped,
          panicked, last, pre_opt, issued, heldAtExit, drained,
          copies, stored, storedBy, released, bare, leaked,
          foo, main_t, hidden_hole, filled, unfilled, fooDrops>>

\* What lives outside the Locks: only the steps that move a T out of a slot
\* change it.
\* The state of examples/take_mut.rs.
example == <<foo, main_t, hidden_hole, filled, unfilled, fooDrops>>

outside == <<bare, leaked, example>>

\* The two Foos of main: the one `foo` starts with and the one built for
\* Hole::fill.
Foos == {"orig", "new"}

Rec(op, slot, src, val, ran) ==
    [op |-> op, slot |-> slot, src |-> src, val |-> val, ran |-> ran]

\* The bookkeeping every operation does: record it, snapshot opt_val.
NoteLib(r) ==
    /\ last' = r
    /\ pre_opt' = opt_val
    /\ copies' = IF r.op = "alias" THEN copies + 1 ELSE copies
    /\ IF r.op \in {"fill", "fill_from", "deref_mut", "swap"} /\ r.val # Panic
       THEN /\ stored' = [stored EXCEPT ![r.slot] = r.val]
            /\ storedBy' = [storedBy EXCEPT ![r.slot] = r.op]
       ELSE UNCHANGED <<stored, storedBy>>
    /\ released' = IF r.op = "drop_handle" /\ handles[r.slot] = 1
                   THEN [released EXCEPT ![r.slot] = TRUE]
                   ELSE released

\* The bookkeeping of an operation of lib.rs, which touches nothing outside.
Note(r) == NoteLib(r) /\ UNCHANGED outside

\* The next value to be constructed.  Lock<T> is generic in T without trait
\* bounds, so no operation can inspect a value: a value is its identity, and
\* values are numbered in the order in which the caller constructs them.
Fresh(t) == t \in Vals \ made /\ \A u \in Vals \ made : t <= u

\* Running the destructor of v (None: nothing to destruct).
RunDrop(d, v) == IF v = None THEN d ELSE [d EXCEPT ![v] = @ + 1]

Init ==
    /\ status = [s \in Slots |-> "unborn"]
    /\ opt_val = [s \in Slots |-> None]
    /\ borrowed = [s \in Slots |-> FALSE]
    /\ acceptors = [s \in Slots |-> 0]
    /\ handles = [s \in Slots |-> 0]
    /\ made = {}
    /\ dropped = [v \in Vals |-> 0]
    /\ panicked = FALSE
    /\ last = Rec("init", 0, 0, None, None)
    /\ pre_opt = [s \in Slots |-> None]
    /\ issued = [s \in Slots |-> 0]
    /\ heldAtExit = [s \in Slots |-> None]
    /\ drained = [s \in Slots |-> None]
    /\ copies = 0
    /\ stored = [s \in Slots |-> None]
    /\ storedBy = [s \in Slots |-> "none"]
    /\ released = [s \in Slots |-> FALSE]
    /\ bare = {}
    /\ leaked = {}
    /\ foo = [val |-> "orig", full |-> TRUE, scope |-> TRUE]
    /\ main_t = "none"
    /\ hidden_hole = None
    /\ filled = FALSE
    /\ unfilled = FALSE
    /\ fooDrops = [f \in Foos |-> 0]

\* ---------------------------------------------------------------- Lock

\* Lock::new(): Lock { opt_val: None, .. }, bound to the next stack location.
New(s) ==
    /\ ~panicked
    /\ status[s] = "unborn"
    /\ \A t \in Slots : t < s => status[t] # "unborn"
    /\ status' = [status EXCEPT ![s] = "scope"]
    /\ opt_val' = [opt_val EXCEPT ![s] = None]
    /\ Note(Rec("new", s, 0, None, None))
    /\ UNCHANGED <<borrowed, acceptors, handles, made, dropped, panicked,
                   issued, heldAtExit, drained>>

\* Whether a loan of the slot forbids borrowing it again: lock() takes
\* &'lock mut self on a Lock<'lock, T>, so the loan lives as long as the Lock.
\* Variants: lock(&self), a shared borrow that excludes nothing; and
\* lock(&mut self) with a lifetime of its own, a loan that ends with the last
\* Acceptor or Handle made from it.
LoanLive_shared(s) == FALSE
LoanLive_tokens(s) == acceptors[s] + handles[s] > 0
LoanLive(s) == borrowed[s]

\* Lock::lock(&'lock mut self) -> Acceptor::new(self).
Lock(s) ==
    /\ ~panicked
    /\ status[s] = "scope"
    /\ ~LoanLive(s)
    /\ borrowed' = [borrowed EXCEPT ![s] = TRUE]
    /\ acceptors' = [acceptors EXCEPT ![s] = @ + 1]
    /\ issued' = [issued EXCEPT ![s] = @ + 1]
    /\ Note(Rec("lock", s, 0, None, None))
    /\ UNCHANGED <<status, opt_val, handles, made, dropped, panicked,
                   heldAtExit, drained>>

\* Dropping a Lock without running its drop glue (std::mem::forget) moves the
\* Lock, which the borrow checker allows only while no loan of it is live.
ForgetLock(s) ==
    /\ ~panicked
    /\ status[s] = "scope"
    /\ ~LoanLive(s)
    /\ status' = [status EXCEPT ![s] = "forgotten"]
    /\ Note(Rec("forget_lock", s, 0, None, None))
    /\ UNCHANGED <<opt_val, borrowed, acceptors, handles, made, dropped,
                   panicked, issued, heldAtExit, drained>>

\* The drop glue of Lock: its field opt_val: Option<T> drops the T it holds.
\* Variant: a field that does not drop its contents (ManuallyDrop<T>).
DropGlue_leak(d, v) == d
DropGlue(d, v) == RunDrop(d, v)

\* The Lock's binding leaves scope (normally, or while a panic unwinds).
\* Acceptor<'lock, T> and Handle<'lock, T> cannot be used past 'lock.
ScopeExit(s) ==
    /\ status[s] = "scope"
    /\ status' = [status EXCEPT ![s] = "gone"]
    /\ heldAtExit' = [heldAtExit EXCEPT ![s] = opt_val[s]]
    /\ dropped' = DropGlue(dropped, opt_val[s])
    /\ opt_val' = [opt_val EXCEPT ![s] = None]
    /\ acceptors' = [acceptors EXCEPT ![s] = 0]
    /\ handles' = [handles EXCEPT ![s] = 0]
    /\ Note(Rec("scope_exit", s, 0, None, opt_val[s]))
    /\ UNCHANGED <<borrowed, made, panicked, issued, drained>>

\* ------------------------------------------------------------ Acceptor

\* self.mut_lock.opt_val = Some(t).
\* Variant: fill returns the Handle without the assignment.
Store_skip(ov, s, t) == ov
Store(ov, s, t) == [ov EXCEPT ![s] = t]

\* Variant of fill: it writes through opt_val.as_mut().expect(..), which
\* panics on the empty slot a fresh Acceptor refers to.
Fill_as_mut(s, t) ==
    /\ ~panicked
    /\ acceptors[s] >= 1
    /\ Fresh(t)
    /\ panicked' = (opt_val[s] = None)
    /\ opt_val' = IF opt_val[s] = None THEN opt_val ELSE Store(opt_val, s, t)
    /\ dropped' = IF opt_val[s] = None THEN RunDrop(dropped, t)
                  ELSE RunDrop(dropped, opt_val[s])
    /\ acceptors' = [acceptors EXCEPT ![s] = @ - 1]
    /\ handles' = IF opt_val[s] = None THEN handles
                  ELSE [handles EXCEPT ![s] = @ + 1]
    /\ made' = made \cup {t}
    /\ Note(Rec("fill", s, 0, IF opt_val[s] = None THEN Panic ELSE t, None))
    /\ UNCHANGED <<status, borrowed, issued, heldAtExit, drained>>

\* Acceptor::fill(self, t): consumes the Acceptor, returns a Handle.  The
\* assignment drops whatever opt_val held before.
Fill(s, t) ==
    /\ ~panicked
    /\ acceptors[s] >= 1
    /\ Fresh(t)
    /\ opt_val' = Store(opt_val, s, t)
    /\ dropped' = RunDrop(dropped, opt_val[s])
    /\ acceptors' = [acceptors EXCEPT ![s] = @ - 1]
    /\ handles' = [handles EXCEPT ![s] = @ + 1]
    /\ made' = made \cup {t}
    /\ Note(Rec("fill", s, 0, t, opt_val[s]))
    /\ UNCHANGED <<status, borrowed, panicked, issued, heldAtExit, drained>>

\* Option::expect(): the value, or a panic on None.
\* Variant: unwrap_or_default(), which hands out the empty value instead.
Expect_or_default(x) == x
Expect(x) == IF x = None THEN Panic ELSE x

\* Option::take(): leaves None in the source.
\* Variant: a bitwise read that leaves the source as it was.
Take_peek(ov, o) == ov
Take(ov, o) == [ov EXCEPT ![o] = None]

\* fill_from takes handle_t by value: the caller's Handle is moved in and gone.
\* Variant: a signature taking &mut Handle, which leaves the caller's Handle.
Consume_borrow(h, o) == h
Consume(h, o) == [h EXCEPT ![o] = @ - 1]

\* Acceptor::fill_from(self, handle_t): take() the source's value, expect() it,
\* then self.fill(new).  Both self and handle_t are consumed, also on a panic.
FillFrom(s, o) ==
    /\ ~panicked
    /\ acceptors[s] >= 1
    /\ handles[o] >= 1
    /\ LET new == opt_val[o]
           taken == Take(opt_val, o)
       IN  IF Expect(new) = Panic
           THEN /\ opt_val' = taken
                /\ panicked' = TRUE
                /\ handles' = Consume(handles, o)
                /\ Note(Rec("fill_from", s, o, Panic, None))
                /\ UNCHANGED <<dropped, drained>>
           ELSE /\ opt_val' = Store(taken, s, new)
                /\ dropped' = RunDrop(dropped, taken[s])
                /\ handles' = [Consume(handles, o) EXCEPT ![s] = @ + 1]
                /\ drained' = [drained EXCEPT ![o] = new]
                /\ Note(Rec("fill_from", s, o, new, taken[s]))
                /\ UNCHANGED panicked
    /\ acceptors' = [acceptors EXCEPT ![s] = @ - 1]
    /\ UNCHANGED <<status, borrowed, made, issued, heldAtExit>>

\* An Acceptor is dropped or forgotten: it has no Drop impl.
DropAcceptor(s) ==
    /\ ~panicked
    /\ acceptors[s] >= 1
    /\ acceptors' = [acceptors EXCEPT ![s] = @ - 1]
    /\ Note(Rec("drop_acceptor", s, 0, None, None))
    /\ UNCHANGED <<status, opt_val, borrowed, handles, made, dropped,
                   panicked, issued, heldAtExit, drained>>

\* -------------------------------------------------------------- Handle

\* Handle::deref(&self): opt_val.as_ref().expect(..).
Deref(s) ==
    /\ ~panicked
    /\ handles[s] >= 1
    /\ panicked' = (Expect(opt_val[s]) = Panic)
    /\ Note(Rec("deref", s, 0, Expect(opt_val[s]), None))
    /\ UNCHANGED <<status, opt_val, borrowed, acceptors, handles, made,
                   dropped, issued, heldAtExit, drained>>

\* The caller's `*handle = w` through the &mut T that as_mut() hands out: it
\* points into the Lock's own opt_val.
\* Variant: a reference to a copy, so that the write never reaches the Lock.
Assign_copy(ov, s, w) == ov
Assign(ov, s, w) == [ov EXCEPT ![s] = w]

\* Handle::deref_mut(&mut self): opt_val.as_mut().expect(..), and the caller's
\* assignment `*handle = w` through the &mut T: the old value is dropped in
\* place.  On a panic the unwinding drops w, which the caller had built.
DerefMut(s, w) ==
    /\ ~panicked
    /\ handles[s] >= 1
    /\ Fresh(w)
    /\ made' = made \cup {w}
    /\ IF Expect(opt_val[s]) = Panic
       THEN /\ panicked' = TRUE
            /\ dropped' = RunDrop(dropped, w)
            /\ Note(Rec("deref_mut", s, 0, Panic, w))
            /\ UNCHANGED opt_val
       ELSE /\ opt_val' = Assign(opt_val, s, w)
            /\ dropped' = RunDrop(dropped, opt_val[s])
            /\ Note(Rec("deref_mut", s, 0, w, opt_val[s]))
            /\ UNCHANGED panicked
    /\ UNCHANGED <<status, borrowed, acceptors, handles, issued, heldAtExit,
                   drained>>

\* What a Handle's drop does to the Lock's contents: Handle has no Drop impl
\* and holds only a reference.
\* Variant: a Drop impl that take()s the value out of the Lock.
HandleDrop_take(ov, s) == [ov EXCEPT ![s] = None]
HandleDrop(ov, s) == ov

\* A Handle is dropped or forgotten.
DropHandle(s) ==
    /\ ~panicked
    /\ handles[s] >= 1
    /\ handles' = [handles EXCEPT ![s] = @ - 1]
    /\ opt_val' = HandleDrop(opt_val, s)
    /\ Note(Rec("drop_handle", s, 0, None, None))
    /\ UNCHANGED <<status, borrowed, acceptors, made, dropped, panicked,
                   issued, heldAtExit, drained>>

\* A second Handle to the same slot, the "different still-existing Proxy
\* pointing at the same slot" of spec.md 4.3 (in Rust: a bitwise copy made by
\* unsafe code, as ptr::read makes one of a T in examples/take_mut.rs).  It is
\* the state in which the three expect() calls can fail, and is no step of
\* the safe API: only SpecAliased takes it.
AliasHandle(s) ==
    /\ ~panicked
    /\ handles[s] >= 1
    /\ copies < MaxAlias
    /\ handles' = [handles EXCEPT ![s] = @ + 1]
    /\ Note(Rec("alias", s, 0, None, None))
    /\ UNCHANGED <<status, opt_val, borrowed, acceptors, made, dropped,
                   panicked, issued, heldAtExit, drained>>

\* ------------------------------------------- moving a T out of its slot

\* std::mem::swap(&mut *handle, &mut w): the Limitations of the crate docs.
\* DerefMut hands out &mut T, so a bare T (one the caller built, or one swapped
\* out before) can be exchanged for the stored one.  No destructor runs.
Swap(s, w) ==
    /\ ~panicked
    /\ handles[s] >= 1
    /\ Fresh(w) \/ w \in bare
    /\ made' = made \cup {w}
    /\ IF Expect(opt_val[s]) = Panic
       THEN /\ panicked' = TRUE
            /\ bare' = bare \cup {w}
            /\ NoteLib(Rec("swap", s, 0, Panic, None))
            /\ UNCHANGED opt_val
       ELSE /\ opt_val' = Assign(opt_val, s, w)
            /\ bare' = (bare \ {w}) \cup {opt_val[s]}
            /\ NoteLib(Rec("swap", s, 0, w, None))
            /\ UNCHANGED panicked
    /\ UNCHANGED <<status, borrowed, acceptors, handles, dropped, issued,
                   heldAtExit, drained, leaked, example>>

\* A bare T leaves scope (also while a panic unwinds): its destructor runs.
DropBare(v) ==
    /\ v \in bare
    /\ bare' = bare \ {v}
    /\ dropped' = RunDrop(dropped, v)
    /\ NoteLib(Rec("drop_bare", 0, 0, v, v))
    /\ UNCHANGED <<status, opt_val, borrowed, acceptors, handles, made,
                   panicked, issued, heldAtExit, drained, leaked, example>>

\* std::mem::forget of a bare T: its destructor never runs.
ForgetBare(v) ==
    /\ ~panicked
    /\ v \in bare
    /\ bare' = bare \ {v}
    /\ leaked' = leaked \cup {v}
    /\ NoteLib(Rec("forget_bare", 0, 0, v, None))
    /\ UNCHANGED <<status, opt_val, borrowed, acceptors, handles, made,
                   dropped, panicked, issued, heldAtExit, drained, example>>

\* ------------------------------------------- examples/take_mut.rs

\* take(acc, &mut foo): ptr::read moves the Foo out of `foo` into t, a
\* HiddenHole { filled: false, mut_t } is built and acc.fill(hidden_hole)
\* stores it in the Lock; the Hole returned wraps the Handle.
TakeMut(s, h) ==
    /\ ~panicked
    /\ acceptors[s] >= 1
    /\ Fresh(h)
    /\ main_t = "none"
    /\ foo.scope /\ foo.full
    /\ main_t' = "held"
    /\ foo' = [foo EXCEPT !.full = FALSE]
    /\ hidden_hole' = h
    /\ filled' = FALSE
    /\ opt_val' = Store(opt_val, s, h)
    /\ dropped' = RunDrop(dropped, opt_val[s])
    /\ acceptors' = [acceptors EXCEPT ![s] = @ - 1]
    /\ handles' = [handles EXCEPT ![s] = @ + 1]
    /\ made' = made \cup {h}
    /\ NoteLib(Rec("take", s, 0, h, opt_val[s]))
    /\ UNCHANGED <<status, borrowed, panicked, issued, heldAtExit, drained,
                   bare, leaked, unfilled, fooDrops>>

\* drop(t) in main, or t leaving scope (it is declared after lock and foo).
DropTaken ==
    /\ main_t = "held"
    /\ main_t' = "gone"
    /\ fooDrops' = [fooDrops EXCEPT !["orig"] = @ + 1]
    /\ NoteLib(Rec("drop_t", 0, 0, None, None))
    /\ UNCHANGED <<status, opt_val, borrowed, acceptors, handles, made,
                   dropped, panicked, issued, heldAtExit, drained,
                   bare, leaked, foo, hidden_hole, filled, unfilled>>

\* self.hidden_hole.filled = true.
\* Variant: Hole::fill without that assignment.
MarkFilled_forget(f) == f
MarkFilled(f) == TRUE

\* Hole::fill(self, w): ptr::write(mut_t, w) puts w into `foo` without
\* dropping what was there, then filled = true; self, and the Handle in it,
\* ends with the call.  Both uses of hidden_hole go through deref_mut.
\* w is t itself (moved in) or a new Foo.
HoleFill(s, w) ==
    /\ ~panicked
    /\ handles[s] >= 1
    /\ hidden_hole # None
    /\ w = "orig" => main_t = "held"
    /\ handles' = [handles EXCEPT ![s] = @ - 1]
    /\ IF Expect(opt_val[s]) = Panic
       THEN /\ panicked' = TRUE
            /\ fooDrops' = [fooDrops EXCEPT ![w] = @ + 1]
            /\ main_t' = IF w = "orig" THEN "gone" ELSE main_t
            /\ NoteLib(Rec("hole_fill", s, 0, Panic, None))
            /\ UNCHANGED <<foo, filled>>
       ELSE /\ foo' = [foo EXCEPT !.val = w, !.full = TRUE]
            /\ filled' = MarkFilled(filled)
            /\ main_t' = IF w = "orig" THEN "gone" ELSE main_t
            /\ NoteLib(Rec("hole_fill", s, 0, opt_val[s], None))
            /\ UNCHANGED <<panicked, fooDrops>>
    /\ UNCHANGED <<status, opt_val, borrowed, acceptors, made, dropped,
                   issued, heldAtExit, drained, bare, leaked, hidden_hole,
                   unfilled>>

\* HiddenHole::drop: panic!("Unfilled hole!") if !self.filled.
HiddenHoleDrop(f) == ~f

\* The Lock leaves scope, after t and the Hole, which are declared later.  Its
\* drop glue drops opt_val; for the HiddenHole that runs HiddenHole::drop.
LockExit(s) ==
    /\ status[s] = "scope"
    /\ opt_val[s] # None => main_t # "held"
    /\ status' = [status EXCEPT ![s] = "gone"]
    /\ heldAtExit' = [heldAtExit EXCEPT ![s] = opt_val[s]]
    /\ dropped' = DropGlue(dropped, opt_val[s])
    /\ opt_val' = [opt_val EXCEPT ![s] = None]
    /\ acceptors' = [acceptors EXCEPT ![s] = 0]
    /\ handles' = [handles EXCEPT ![s] = 0]
    /\ IF opt_val[s] # None /\ HiddenHoleDrop(filled)
       THEN /\ panicked' = TRUE
            /\ unfilled' = TRUE
            /\ NoteLib(Rec("lock_exit", s, 0, Panic, opt_val[s]))
       ELSE /\ NoteLib(Rec("lock_exit", s, 0, None, opt_val[s]))
            /\ UNCHANGED <<panicked, unfilled>>
    /\ UNCHANGED <<borrowed, made, issued, drained, bare, leaked, foo,
                   main_t, hidden_hole, filled, fooDrops>>

\* `foo` leaves scope (normally or while the panic unwinds): it is declared
\* before lock, so after every Lock that holds a reference to it.  Its drop
\* glue runs Foo's destructor on whatever bits it holds.
FooExit ==
    /\ foo.scope
    /\ main_t # "held"
    /\ \A s \in Slots : opt_val[s] = None
    /\ foo' = [foo EXCEPT !.scope = FALSE]
    /\ fooDrops' = [fooDrops EXCEPT ![foo.val] = @ + 1]
    /\ NoteLib(Rec("foo_exit", 0, 0, None, None))
    /\ UNCHANGED <<status, opt_val, borrowed, acceptors, handles, made,
                   dropped, panicked, issued, heldAtExit, drained,
                   bare, leaked, main_t, hidden_hole, filled, unfilled>>

\* ------------------------------------------------------- specifications

Next ==
    \/ \E s \in Slots : New(s)
    \/ \E s \in Slots : Lock(s)
    \/ \E s \in Slots : ForgetLock(s)
    \/ \E s \in Slots : ScopeExit(s)
    \/ \E s \in Slots, t \in Vals : Fill(s, t)
    \/ \E s \in Slots, o \in Slots : FillFrom(s, o)
    \/ \E s \in Slots : DropAcceptor(s)
    \/ \E s \in Slots : Deref(s)
    \/ \E s \in Slots, w \in Vals : DerefMut(s, w)
    \/ \E s \in Slots : DropHandle(s)

\* The safe public API.
Spec == Init /\ [][Next]_vars

NextAliased == Next \/ \E s \in Slots : AliasHandle(s)

\* The API with Handles that alias a slot.
SpecAliased == Init /\ [][NextAliased]_vars

NextSwap ==
    \/ Next
    \/ \E s \in Slots, w \in Vals : Swap(s, w)
    \/ \E v \in Vals : DropBare(v)
    \/ \E v \in Vals : ForgetBare(v)

\* The safe API with values swapped out of their slots through DerefMut.
SpecSwap == Init /\ [][NextSwap]_vars

NextTake ==
    \/ \E s \in Slots : New(s)
    \/ \E s \in Slots : Lock(s)
    \/ \E s \in Slots : DropAcceptor(s)
    \/ \E s \in Slots, h \in Vals : TakeMut(s, h)
    \/ DropTaken
    \/ \E s \in Slots, w \in Foos : HoleFill(s, w)
    \/ \E s \in Slots : DropHandle(s)
    \/ \E s \in Slots : LockExit(s)
    \/ FooExit

\* examples/take_mut.rs: main, with every fate of the Hole.
SpecTake == Init /\ [][NextTake]_vars

TypeOK ==
    /\ status \in [Slots -> {"unborn", "scope", "gone", "forgotten"}]
    /\ opt_val \in [Slots -> Vals \cup {None}]
    /\ borrowed \in [Slots -> BOOLEAN]
    /\ acceptors \in [Slots -> 0..1]
    /\ handles \in [Slots -> 0..(1 + MaxAlias)]
    /\ copies \in 0..MaxAlias
    /\ made \subseteq Vals
    /\ dropped \in [Vals -> 0..2]
    /\ panicked \in BOOLEAN
    /\ bare \subseteq Vals
    /\ leaked \subseteq Vals
    /\ foo \in [val : Foos, full : BOOLEAN, scope : BOOLEAN]
    /\ main_t \in {"none", "held", "gone"}
    /\ hidden_hole \in Vals \cup {None}
    /\ filled \in BOOLEAN
    /\ unfilled \in BOOLEAN
    /\ fooDrops \in [Foos -> 0..2]

\* ---------------------------------------------------------------- claims

\* Whether value v reached its slot by a relocation.
Relocated(v) == \E o \in Slots : drained[o] = v

\* C1: once a slot has left scope, the value it held at that moment has had
\* its destructor run exactly once (not zero times, not twice).
C1_DestructedExactlyOnce ==
    \A s \in Slots :
        (status[s] = "gone" /\ heldAtExit[s] # None)
            => dropped[heldAtExit[s]] = 1

\* A relocated value's slot has left scope, after the source slot did.
C1_Witness ==
    \E s \in Slots, o \in Slots :
        /\ status[s] = "gone" /\ status[o] = "gone"
        /\ heldAtExit[s] # None
        /\ drained[o] = heldAtExit[s]

\* C2: after fill(v) on a fresh slot the occupancy is Some(v) and the returned
\* Handle is the slot's one alias; a deref of that Handle, nothing having been
\* stored into the slot since, yields v.
C2_FillThenDeref ==
    /\ last.op = "fill" =>
          /\ pre_opt[last.slot] = None
          /\ opt_val[last.slot] = last.val
          /\ handles[last.slot] = 1
    /\ (last.op = "deref" /\ storedBy[last.slot] = "fill") =>
          /\ last.val = stored[last.slot]
          /\ opt_val[last.slot] = stored[last.slot]

\* A deref of a Handle returned by fill has yielded the filled value.
C2_Witness ==
    /\ last.op = "deref"
    /\ storedBy[last.slot] = "fill"
    /\ last.val \in Vals

\* C3: fill_from on B's Acceptor with a Handle of another, occupied slot A
\* holding v leaves A empty and B holding v; a deref of B's Handle yields v,
\* and a later deref through a Handle of A panics.
C3_Relocation ==
    /\ (last.op = "fill_from" /\ last.src # last.slot
            /\ pre_opt[last.src] # None) =>
          /\ last.val = pre_opt[last.src]
          /\ opt_val[last.src] = None
          /\ opt_val[last.slot] = last.val
          /\ handles[last.slot] >= 1
    /\ (last.op = "deref" /\ storedBy[last.slot] = "fill_from"
            /\ drained[last.slot] = None) =>
          last.val = stored[last.slot]
    /\ (last.op = "deref" /\ drained[last.slot] # None) =>
          (last.val = Panic /\ panicked)

\* A relocation out of A has completed while a second Handle of A is live.
C3_Witness ==
    /\ last.op = "fill_from"
    /\ last.val \in Vals
    /\ last.src # last.slot
    /\ handles[last.src] >= 1
    /\ opt_val[last.slot] = last.val

\* C4: a relocated resource R is not destructed by the relocation, nor while
\* its new slot holds it, nor when the drained slot L1 leaves scope; it is
\* destructed exactly once when the slot L2 holding it leaves scope.
C4_RelocationDropOrder ==
    /\ (last.op = "fill_from" /\ last.val # Panic) => dropped[last.val] = 0
    /\ \A s \in Slots :
          (opt_val[s] # None /\ Relocated(opt_val[s]))
              => dropped[opt_val[s]] = 0
    /\ (last.op = "scope_exit" /\ drained[last.slot] # None) =>
          (last.ran = None /\ heldAtExit[last.slot] = None)
    /\ (last.op = "scope_exit" /\ heldAtExit[last.slot] # None
            /\ Relocated(heldAtExit[last.slot])) =>
          /\ last.ran = heldAtExit[last.slot]
          /\ dropped[heldAtExit[last.slot]] = 1

\* L2 leaves scope holding R, after the drained L1 left scope.
C4_Witness ==
    /\ last.op = "scope_exit"
    /\ heldAtExit[last.slot] # None
    /\ \E o \in Slots :
          /\ drained[o] = heldAtExit[last.slot]
          /\ status[o] = "gone"
    /\ dropped[heldAtExit[last.slot]] = 1

\* C5: at most one mutable alias (Acceptor or Handle) of a slot is live.
C5_OneAlias == \A s \in Slots : acceptors[s] + handles[s] <= 1

\* A slot whose Acceptor was consumed has exactly its Handle as alias.
C5_Witness ==
    \E s \in Slots :
        /\ issued[s] = 1
        /\ acceptors[s] = 0
        /\ handles[s] = 1

\* C6: lock() succeeds at most once in a slot's life, also after the Acceptor
\* or the Handle made from it is gone.
C6_LockOnce == \A s \in Slots : issued[s] <= 1

\* A slot still in scope whose Acceptor and Handle are both gone.
C6_Witness ==
    \E s \in Slots :
        /\ status[s] = "scope"
        /\ issued[s] = 1
        /\ acceptors[s] = 0
        /\ handles[s] = 0
        /\ (released[s] \/ storedBy[s] = "none")

\* C7: fill_from with a source Handle whose slot is empty panics; a fill_from
\* that completes leaves the destination occupied.
C7_FillFromEmptied ==
    /\ (last.op = "fill_from" /\ pre_opt[last.src] = None) =>
          /\ last.val = Panic
          /\ panicked
          /\ opt_val[last.slot] = pre_opt[last.slot]
    /\ (last.op = "fill_from" /\ last.val # Panic) =>
          (opt_val[last.slot] \in Vals /\ ~panicked)

\* fill_from has been called with a Handle of a drained slot.
C7_Witness ==
    /\ last.op = "fill_from"
    /\ pre_opt[last.src] = None
    /\ drained[last.src] # None
    /\ panicked

\* C8: deref and deref_mut through a Handle whose slot was drained by
\* fill_from panic; they return no stale or default value.
C8_DerefEmptied ==
    (last.op \in {"deref", "deref_mut"} /\ drained[last.slot] # None) =>
        /\ last.val = Panic
        /\ panicked
        /\ opt_val[last.slot] = None

\* A write through a Handle of a drained slot has panicked.
C8_Witness ==
    /\ last.op = "deref_mut"
    /\ drained[last.slot] # None
    /\ last.val = Panic

\* C9: a write of w through deref_mut makes the occupancy Some(w) and changes
\* no other slot; every deref until the next store into the slot yields w.
C9_WriteThenRead ==
    /\ (last.op = "deref_mut" /\ last.val # Panic) =>
          /\ opt_val[last.slot] = last.val
          /\ \A t \in Slots \ {last.slot} : opt_val[t] = pre_opt[t]
    /\ (last.op = "deref" /\ storedBy[last.slot] = "deref_mut") =>
          /\ last.val = stored[last.slot]
          /\ opt_val[last.slot] = stored[last.slot]

\* A deref after a write has yielded the written value.
C9_Witness ==
    /\ last.op = "deref"
    /\ storedBy[last.slot] = "deref_mut"
    /\ last.val = stored[last.slot]
    /\ last.val \in Vals

\* C10: dropping a Handle leaves every slot's occupancy as it was and runs no
\* destructor; the value is destructed when its slot leaves scope.
C10_HandleDropInert ==
    /\ last.op = "drop_handle" =>
          /\ opt_val = pre_opt
          /\ last.ran = None
          /\ opt_val[last.slot] # None => dropped[opt_val[last.slot]] = 0
    /\ \A s \in Slots :
          (released[s] /\ status[s] = "scope" /\ drained[s] = None)
              => (opt_val[s] = stored[s] /\ dropped[stored[s]] = 0)
    /\ \A s \in Slots :
          (released[s] /\ status[s] = "gone" /\ drained[s] = None)
              => (heldAtExit[s] = stored[s] /\ dropped[stored[s]] = 1)

\* A slot whose Handle had been dropped has left scope and destructed its value.
C10_Witness ==
    \E s \in Slots :
        /\ released[s]
        /\ status[s] = "gone"
        /\ heldAtExit[s] # None
        /\ dropped[heldAtExit[s]] = 1

\* C11: new, lock and fill never fail; a panic comes only from fill_from with
\* an empty source or from deref / deref_mut of an emptied slot.
C11_OnlyExpectFails ==
    /\ last.op \in {"new", "lock", "fill"} =>
          (last.val # Panic /\ ~panicked)
    /\ last.val = Panic => last.op \in {"fill_from", "deref", "deref_mut"}
    /\ (panicked /\ last.op # "scope_exit") => last.val = Panic
    /\ (last.op = "fill_from" /\ last.val = Panic) =>
          pre_opt[last.src] = None
    /\ (last.op \in {"deref", "deref_mut"} /\ last.val = Panic) =>
          opt_val[last.slot] = None

\* fill has completed while a Handle of a drained slot is live.
C11_Witness ==
    /\ last.op = "fill"
    /\ last.val \in Vals
    /\ ~panicked
    /\ \E o \in Slots : drained[o] # None /\ handles[o] >= 1

\* C12: a swap through deref_mut with a bare T moves the stored value out of
\* every slot without destructing it and leaves the swapped-in value in the
\* slot; once forgotten, the moved-out value is never destructed, while the
\* slot's scope exit destructs the swapped-in value.
C12_SwapLeaks ==
    /\ (last.op = "swap" /\ last.val # Panic) =>
          /\ opt_val[last.slot] = last.val
          /\ pre_opt[last.slot] \in bare
          /\ \A s \in Slots : opt_val[s] # pre_opt[last.slot]
          /\ dropped[pre_opt[last.slot]] = 0
    /\ \A v \in leaked :
          /\ dropped[v] = 0
          /\ \A s \in Slots : opt_val[s] # v /\ heldAtExit[s] # v
    /\ \A s \in Slots :
          (status[s] = "gone" /\ storedBy[s] = "swap" /\ drained[s] = None)
              => (heldAtExit[s] = stored[s] /\ dropped[stored[s]] = 1)

\* The value first stored has been swapped out and forgotten, and its slot
\* has left scope destructing the swapped-in value instead.
C12_Witness ==
    \E s \in Slots, v \in leaked :
        /\ status[s] = "gone"
        /\ storedBy[s] = "swap"
        /\ heldAtExit[s] \in Vals \ {v}
        /\ dropped[heldAtExit[s]] = 1
        /\ dropped[v] = 0

\* C13: a slot's occupancy over time is a prefix of absent, present, absent.
\* It becomes present only by fill / fill_from through its own Acceptor, on a
\* locked slot; it becomes absent again only as the source of a fill_from or at
\* its scope exit; a slot emptied either way stays absent.
C13_Lifecycle ==
    \A s \in Slots :
        /\ opt_val[s] # None =>
              (status[s] = "scope" /\ borrowed[s] /\ issued[s] = 1
                  /\ drained[s] = None)
        /\ (pre_opt[s] = None /\ opt_val[s] # None) =>
              (last.op \in {"fill", "fill_from"} /\ last.slot = s)
        /\ (pre_opt[s] # None /\ opt_val[s] = None) =>
              \/ last.op = "fill_from" /\ last.src = s
              \/ last.op = "scope_exit" /\ last.slot = s
        /\ (pre_opt[s] # None /\ opt_val[s] # None /\ opt_val[s] # pre_opt[s])
              => (last.op = "deref_mut" /\ last.slot = s)
        /\ (drained[s] # None \/ status[s] = "gone") => opt_val[s] = None

\* One slot was filled and then emptied as the source of a fill_from and is
\* still in scope; another was filled and emptied by its scope exit.
C13_Witness ==
    \E s, o \in Slots :
        /\ drained[o] # None
        /\ status[o] = "scope"
        /\ acceptors[o] = 0
        /\ status[s] = "gone"
        /\ heldAtExit[s] # None

\* C14: whenever fill, called directly or by fill_from, writes a value, the
\* target slot is empty: no stored value is overwritten and no destructor runs.
C14_FillIntoEmpty ==
    (last.op \in {"fill", "fill_from"} /\ last.val # Panic) =>
        /\ pre_opt[last.slot] = None
        /\ last.ran = None
        /\ opt_val[last.slot] = last.val
        /\ dropped[last.val] = 0

\* A fill_from has just written into its destination while another slot is
\* still filled.
C14_Witness ==
    /\ last.op = "fill_from"
    /\ last.val \in Vals
    /\ opt_val[last.slot] = last.val
    /\ \E s \in Slots \ {last.slot} : opt_val[s] # None

\* C15: through the safe API every live Handle refers to an occupied slot and
\* is the only Handle of that slot, fill_from leaves no Handle of the slot it
\* emptied, and so no deref, deref_mut or fill_from ever panics.
C15_HandleImpliesOccupied ==
    /\ \A s \in Slots :
          /\ handles[s] <= 1
          /\ handles[s] = 1 => opt_val[s] # None
    /\ last.op = "fill_from" =>
          (handles[last.src] = 0 /\ opt_val[last.src] = None)
    /\ ~panicked
    /\ last.val # Panic

\* A fill_from has emptied its source, whose Handle is gone, and the Handle it
\* returned for the destination has since been read.
C15_Witness ==
    \E s, o \in Slots :
        /\ drained[o] # None
        /\ opt_val[o] = None
        /\ handles[o] = 0
        /\ opt_val[s] = drained[o]
        /\ handles[s] = 1
        /\ last.op \in {"deref", "deref_mut"}
        /\ last.slot = s

\* The slots holding value v.
Holders(v) == {s \in Slots : opt_val[s] = v}

\* C16: every value handed to the slots is either held by exactly one slot
\* that is in scope and not yet destructed, or held by no slot and destructed
\* exactly once; a chain of relocations keeps this.
C16_Conservation ==
    \A v \in made :
        \/ /\ Cardinality(Holders(v)) = 1
           /\ \A s \in Holders(v) : status[s] = "scope"
           /\ dropped[v] = 0
        \/ /\ Holders(v) = {}
           /\ dropped[v] = 1

\* A value went A -> B -> C by two relocations and was destructed once, at
\* C's scope exit, while A and B are still in scope.
C16_Witness ==
    \E a, b, c \in Slots, v \in made :
        /\ a # b /\ b # c /\ a # c
        /\ drained[a] = v /\ drained[b] = v
        /\ status[a] = "scope" /\ status[b] = "scope"
        /\ status[c] = "gone" /\ heldAtExit[c] = v
        /\ dropped[v] = 1

\* No Acceptor of slot s exists and none can be issued: the loan of lock() is
\* still held.
Unfillable(s) == borrowed[s] /\ acceptors[s] = 0

\* C17: a fill_from whose source is empty panics after take() and before the
\* write: no slot's occupancy changes, the destination is still empty, no
\* Handle of it exists, its Acceptor is gone and no other can be issued; and a
\* slot that is empty with no Acceptor obtainable is never filled afterwards.
C17_FailedFillFrom ==
    /\ [](  (last.op = "fill_from" /\ pre_opt[last.src] = None) =>
              /\ last.val = Panic
              /\ opt_val = pre_opt
              /\ opt_val[last.slot] = None
              /\ handles[last.slot] = 0
              /\ Unfillable(last.slot)  )
    /\ [][ \A s \in Slots :
              (Unfillable(s) /\ opt_val[s] = None) =>
                  (Unfillable(s)' /\ opt_val'[s] = None) ]_vars

\* fill_from has failed on an empty source and left its destination in scope,
\* empty, with no Acceptor and no Handle.
C17_Witness ==
    /\ last.op = "fill_from"
    /\ last.val = Panic
    /\ status[last.slot] = "scope"
    /\ opt_val[last.slot] = None
    /\ acceptors[last.slot] = 0
    /\ handles[last.slot] = 0

\* Hole::fill has been called: only its ptr::write refills `foo` after take.
FillCalled == hidden_hole # None /\ foo.full

\* C18: once take has stored a HiddenHole in a Lock, HiddenHole::drop runs
\* exactly once, at that Lock's scope exit and not before, whether the Hole
\* was filled, dropped or kept; it panics "Unfilled hole!" exactly if
\* Hole::fill was never called; when the check passes, `foo` is in scope and
\* owns one Foo that has not been destructed, and by the end of main the
\* taken and the written Foo have each been destructed exactly once.
C18_HoleChecked ==
    hidden_hole # None =>
        /\ dropped[hidden_hole] <= 1
        /\ dropped[hidden_hole] = 1 <=>
              \E s \in Slots : status[s] = "gone" /\ heldAtExit[s] = hidden_hole
        /\ dropped[hidden_hole] = 0 <=>
              \E s \in Slots : status[s] = "scope" /\ opt_val[s] = hidden_hole
        /\ dropped[hidden_hole] = 0 => ~unfilled
        /\ dropped[hidden_hole] = 1 => (unfilled <=> ~FillCalled)
        /\ unfilled <=> panicked
        /\ (last.op = "lock_exit" /\ last.ran = hidden_hole /\ ~unfilled) =>
              /\ foo.scope /\ foo.full
              /\ fooDrops[foo.val] = 0
              /\ main_t = "gone"
        /\ FillCalled =>
              /\ \A f \in Foos : fooDrops[f] <= 1
              /\ (~foo.scope /\ foo.val = "new") =>
                    (fooDrops["orig"] = 1 /\ fooDrops["new"] = 1)
              /\ (~foo.scope /\ foo.val = "orig") =>
                    (fooDrops["orig"] = 1 /\ fooDrops["new"] = 0)

\* main has run to its end as written: take, drop(t), Hole::fill with a new
\* Foo, the check passed at the Lock's exit, and `foo` left scope.
C18_Witness ==
    /\ hidden_hole # None
    /\ dropped[hidden_hole] = 1
    /\ ~unfilled
    /\ ~foo.scope
    /\ foo.val = "new"
    /\ fooDrops["orig"] = 1
    /\ fooDrops["new"] = 1

====
